---- MODULE Spec2Model ----
(***************************************************************************)
(* rulego-components-ci: the git nodes (clone-or-pull, commit, create-tag, *)
(* push, log-query) and the host-metrics node of package action.           *)
(*                                                                         *)
(* A Go string is a sequence of tokens.  A token is one character, or one  *)
(* whole substitution marker "${metadata.<key>}".  An error value is a     *)
(* string naming it; NoErr is Go's nil error.                              *)
(***************************************************************************)
EXTENDS Integers, Sequences, FiniteSets, TLC

VARIABLES cfg, meta, dirs, repos, remote, last, prev, steps

vars == <<cfg, meta, dirs, repos, remote, last, prev, steps>>

-----------------------------------------------------------------------------
(* Bounds *)

\* number of rule-chain steps (node invocations, new messages, edits) explored
MaxSteps == 2

-----------------------------------------------------------------------------
(* Metadata keys *)

KeyWorkDir == "workDir"

KeyRef == "ref"

KeyGitSshUrl == "gitSshUrl"

KeyGitHttpUrl == "gitHttpUrl"

KeyHash == "hash"

-----------------------------------------------------------------------------
(* strings, path *)

DotGit == <<".", "g", "i", "t">>

\* strings.Split(s, "/"): the segments between the slashes, at least one
RECURSIVE SplitAcc(_, _, _)
SplitAcc(s, cur, acc) ==
    IF s = <<>> THEN Append(acc, cur)
    ELSE IF Head(s) = "/" THEN SplitAcc(Tail(s), <<>>, Append(acc, cur))
    ELSE SplitAcc(Tail(s), Append(cur, Head(s)), acc)

Split(s) == SplitAcc(s, <<>>, <<>>)

\* strings.TrimSuffix(s, suffix): s without ONE trailing suffix, if it has one
TrimSuffix(s, suffix) ==
    IF Len(s) >= Len(suffix)
       /\ SubSeq(s, Len(s) - Len(suffix) + 1, Len(s)) = suffix
    THEN SubSeq(s, 1, Len(s) - Len(suffix))
    ELSE s

\* path.Clean on the segments: "" and "." dropped, ".." takes back a segment
RECURSIVE CleanSegs(_, _, _)
CleanSegs(segs, rooted, out) ==
    IF segs = <<>> THEN out
    ELSE LET s == Head(segs)
             rest == Tail(segs)
         IN IF s = <<>> \/ s = <<".">> THEN CleanSegs(rest, rooted, out)
            ELSE IF s = <<".", ".">>
            THEN IF out # <<>> /\ out[Len(out)] # <<".", ".">>
                 THEN CleanSegs(rest, rooted, SubSeq(out, 1, Len(out) - 1))
                 ELSE IF rooted THEN CleanSegs(rest, rooted, out)
                 ELSE CleanSegs(rest, rooted, Append(out, s))
            ELSE CleanSegs(rest, rooted, Append(out, s))

RECURSIVE JoinSegs(_)
JoinSegs(segs) ==
    IF segs = <<>> THEN <<>>
    ELSE IF Len(segs) = 1 THEN Head(segs)
    ELSE Head(segs) \o <<"/">> \o JoinSegs(Tail(segs))

\* path.Clean(p)
Clean(p) ==
    IF p = <<>> THEN <<".">>
    ELSE LET rooted == Head(p) = "/"
             body == JoinSegs(CleanSegs(Split(p), rooted, <<>>))
             r == IF rooted THEN <<"/">> \o body ELSE body
         IN IF r = <<>> THEN <<".">> ELSE r

\* path.Join(a, b): "" when both are empty, else Clean of the non-empty
\* elements joined by "/"
PathJoin(a, b) ==
    IF a = <<>> /\ b = <<>> THEN <<>>
    ELSE IF a = <<>> THEN Clean(b)
    ELSE Clean(a \o <<"/">> \o b)

-----------------------------------------------------------------------------
(* templates *)

MarkerBase == "${metadata.base}"

MarkerRepoUrl == "${metadata.repoUrl}"

MarkerBranch == "${metadata.branch}"

MarkerSince == "${metadata.since}"

Markers == {MarkerBase, MarkerRepoUrl, MarkerBranch, MarkerSince}

\* metadata entries of the caller's own, present on every message of the model
CallerMeta ==
    [base |-> <<"/", "v">>,
     repoUrl |-> <<"h", "/", "q", ".", "g", "i", "t">>,
     branch |-> <<"d", "e", "v">>,
     since |-> <<"2", "0", "2", "4", "-", "0", "1", "-", "0", "2">>]

\* the nil map: OnMsg leaves evn nil when the node's hasVar is false
NilEvn == [nil |-> TRUE]

\* base.NodeUtils.GetEvnAndMetadata(ctx, msg)
GetEvnAndMetadata(m) == [nil |-> FALSE, metadata |-> [known |-> m, caller |-> CallerMeta]]

\* str.CheckHasVar(s)
CheckHasVar(s) == \E i \in 1..Len(s) : s[i] \in Markers

LookupMarker(tok, evn) ==
    CASE tok = MarkerBase -> evn.metadata.caller.base
      [] tok = MarkerRepoUrl -> evn.metadata.caller.repoUrl
      [] tok = MarkerBranch -> evn.metadata.caller.branch
      [] tok = MarkerSince -> evn.metadata.caller.since

\* str.ExecuteTemplate(s, evn): every marker replaced by its value in evn
RECURSIVE ExecuteTemplate(_, _)
ExecuteTemplate(s, evn) ==
    IF s = <<>> THEN <<>>
    ELSE (IF Head(s) \in Markers THEN LookupMarker(Head(s), evn) ELSE <<Head(s)>>)
         \o ExecuteTemplate(Tail(s), evn)

-----------------------------------------------------------------------------
(* baseGitNode: the field accessors shared by the five git nodes *)

IsSshAuthType(t) == t = "ssh-key" \/ t = "ssh"

getRepository_SshKeyOnly(c, m, evn) ==
    IF c.Repository = <<>>
    THEN IF c.AuthType = "ssh-key" THEN m.gitSshUrl ELSE m.gitHttpUrl
    ELSE IF ~evn.nil THEN ExecuteTemplate(c.Repository, evn)
    ELSE c.Repository

getRepository(c, m, evn) ==
    IF c.Repository = <<>>
    THEN IF IsSshAuthType(c.AuthType) THEN m.gitSshUrl ELSE m.gitHttpUrl
    ELSE IF ~evn.nil THEN ExecuteTemplate(c.Repository, evn)
    ELSE c.Repository

getReferenceName(c, m, evn) ==
    IF c.Reference = <<>> THEN m.ref
    ELSE IF ~evn.nil THEN ExecuteTemplate(c.Reference, evn)
    ELSE c.Reference

getRepoName(repoURL) ==
    LET parts == Split(repoURL)
    IN TrimSuffix(parts[Len(parts)], DotGit)

\* the base directory getWorkDir joins the repository name to
getBaseDir(c, m, evn) ==
    IF c.Directory = <<>> THEN m.workDir
    ELSE IF ~evn.nil THEN ExecuteTemplate(c.Directory, evn)
    ELSE c.Directory

getWorkDir(c, m, evn) ==
    PathJoin(getBaseDir(c, m, evn), getRepoName(getRepository(c, m, evn)))

\* GitCommitNode.getMessage, GitCreateTagNode.getMessage
getMessage(c, evn) ==
    IF ~evn.nil THEN ExecuteTemplate(c.Message, evn) ELSE c.Message

-----------------------------------------------------------------------------
(* errors *)

NoErr == "nil"

NoErrAlreadyUpToDate == "already up-to-date"

ErrNotExist == "no such file or directory"

ErrRepositoryNotExists == "repository does not exist"

ErrRepositoryAlreadyExists == "repository already exists"

ErrMissingURL == "URL field is required"

ErrIsBareRepository == "worktree not available in a bare repository"

ErrTransport == "transport error"

ErrKeyFile == "cannot load the ssh key file"

ErrAuthType == "not authType="

ErrNoChanges == "no changes to commit"

ErrReferenceNotFound == "reference not found"

ErrObjectNotFound == "object not found"

ErrTagExists == "tag already exists"

ErrStatus == "cannot compute the worktree status"

ErrAddGlob == "glob pattern did not match any files"

ErrCommit == "cannot write the commit"

ErrLog == "cannot read the history"

NilDeref == "invalid memory address or nil pointer dereference"

-----------------------------------------------------------------------------
(* the trace of one invocation: the calls it made, each with the error the *)
(* call returned (for TellFailure: the error it was given)                 *)

E(call, err) == [call |-> call, err |-> err]

TellSuccess == E("TellSuccess", NoErr)

TellFailure(err) == E("TellFailure", err)

Panic == E("panic", NilDeref)

PutWorkDir == E("PutValue(workDir)", NoErr)

PutHash == E("PutValue(hash)", NoErr)

\* defer iter.Close(): runs when OnMsg returns
IterClose == E("iter.Close", NoErr)

-----------------------------------------------------------------------------
(* the filesystem and the git library, as the handlers see them.           *)
(* fs.dirs: the directories that exist; fs.repos: the repository held by a *)
(* directory: ver the remote version it is at, dirty whether the working   *)
(* tree has changes, commits and tags how many it holds                    *)

Cwd == <<".">>

\* the directory a path names; the empty path is relative to the process's
\* current directory
Target(p) == IF p = <<>> THEN Cwd ELSE p

\* os.Stat(p): the empty path never exists
Stat(fs, p) ==
    IF p # <<>> /\ p \in fs.dirs THEN NoErr ELSE ErrNotExist

IsNotExist_AnyOutcome(err) == TRUE

\* os.IsNotExist(err)
IsNotExist(err) == err = ErrNotExist

HasRepo(fs, p) == Target(p) \in DOMAIN fs.repos

\* git.PlainOpen(p)
PlainOpen(fs, p) == IF HasRepo(fs, p) THEN NoErr ELSE ErrRepositoryNotExists

PutRepo(fs, p, r) ==
    [dirs |-> fs.dirs \cup {Target(p)},
     repos |-> [q \in DOMAIN fs.repos \cup {Target(p)} |->
                   IF q = Target(p) THEN r ELSE fs.repos[q]]]

\* git.PlainClone(p, false, options): the error, and the filesystem after it
PlainClone(fs, rem, p, url, fault) ==
    IF HasRepo(fs, p) THEN [err |-> ErrRepositoryAlreadyExists, fs |-> fs]
    ELSE IF url = <<>> THEN [err |-> ErrMissingURL, fs |-> fs]
    ELSE IF fault = "net" THEN [err |-> ErrTransport, fs |-> fs]
    ELSE [err |-> NoErr,
          fs |-> PutRepo(fs, p, [ver |-> rem, dirty |-> FALSE,
                                 commits |-> 1, tags |-> 0])]

\* w.Pull(options)
Pull(fs, rem, p, fault) ==
    LET r == fs.repos[Target(p)]
    IN IF fault = "net" THEN [err |-> ErrTransport, fs |-> fs]
       ELSE IF r.ver = rem THEN [err |-> NoErrAlreadyUpToDate, fs |-> fs]
       ELSE [err |-> NoErr, fs |-> PutRepo(fs, p, [r EXCEPT !.ver = rem])]

\* r.Push(options)
Push(fault) ==
    IF fault = "net" THEN ErrTransport
    ELSE IF fault = "uptodate" THEN NoErrAlreadyUpToDate
    ELSE NoErr

-----------------------------------------------------------------------------
(* baseGitNode.getAuthMethod *)

\* the transport.AuthMethod values
NilAuth == [kind |-> "nil"]

\* &httptransport.BasicAuth{Username: ..., Password: ...}
BasicAuth(username, password) ==
    [kind |-> "BasicAuth", Username |-> username, Password |-> password]

\* ssh.NewPublicKeysFromFile(user, pemFile, password)
NewPublicKeysFromFile(user, pemFile, password, fault) ==
    IF fault = "key" THEN [auth |-> NilAuth, err |-> ErrKeyFile]
    ELSE [auth |-> [kind |-> "PublicKeys", User |-> user, PemFile |-> pemFile,
                    Password |-> password],
          err |-> NoErr]

getAuthMethod_AnyType(c, fault) ==
    IF IsSshAuthType(c.AuthType)
    THEN NewPublicKeysFromFile(c.AuthUser, c.AuthPemFile, c.AuthPassword, fault)
    ELSE [auth |-> BasicAuth(c.AuthUser, c.AuthPassword), err |-> NoErr]

getAuthMethod_NoAliases(c, fault) ==
    IF c.AuthType = "ssh-key"
    THEN NewPublicKeysFromFile(c.AuthUser, c.AuthPemFile, c.AuthPassword, fault)
    ELSE IF c.AuthType \in {"username-password", "token"}
    THEN [auth |-> BasicAuth(c.AuthUser, c.AuthPassword), err |-> NoErr]
    ELSE [auth |-> NilAuth, err |-> ErrAuthType]

getAuthMethod(c, fault) ==
    IF IsSshAuthType(c.AuthType)
    THEN NewPublicKeysFromFile(c.AuthUser, c.AuthPemFile, c.AuthPassword, fault)
    ELSE IF c.AuthType \in {"username-password", "password"}
    THEN [auth |-> BasicAuth(c.AuthUser, c.AuthPassword), err |-> NoErr]
    ELSE IF c.AuthType = "token"
    THEN [auth |-> BasicAuth(c.AuthUser, c.AuthPassword), err |-> NoErr]
    ELSE [auth |-> NilAuth, err |-> ErrAuthType]

-----------------------------------------------------------------------------
(* Init of each node: the hasVar flag *)

GitCloneNodeInit(c) ==
    CheckHasVar(c.Repository) \/ CheckHasVar(c.Directory) \/ CheckHasVar(c.Reference)

GitCommitNodeInit(c) ==
    CheckHasVar(c.Directory) \/ CheckHasVar(c.Pattern)
        \/ CheckHasVar(c.SigName) \/ CheckHasVar(c.SigEmail)

GitCreateTagNodeInit(c) ==
    CheckHasVar(c.Directory) \/ CheckHasVar(c.Tag)
        \/ CheckHasVar(c.SigName) \/ CheckHasVar(c.SigEmail)

GitPushNodeInit(c) ==
    CheckHasVar(c.Repository) \/ CheckHasVar(c.Directory) \/ CheckHasVar(c.RefSpecs)

GitLogNodeInit(c) ==
    CheckHasVar(c.StartTime) \/ CheckHasVar(c.EndTime)

GitOps == {"gitClone", "gitCommit", "gitCreateTag", "gitPush", "gitLog"}

hasVar(op, c) ==
    CASE op = "gitClone" -> GitCloneNodeInit(c)
      [] op = "gitCommit" -> GitCommitNodeInit(c)
      [] op = "gitCreateTag" -> GitCreateTagNodeInit(c)
      [] op = "gitPush" -> GitPushNodeInit(c)
      [] op = "gitLog" -> GitLogNodeInit(c)

\* the head of every OnMsg: evn is built only when hasVar is set
Evn(op, c, m) == IF hasVar(op, c) THEN GetEvnAndMetadata(m) ELSE NilEvn

-----------------------------------------------------------------------------
(* OnMsg of each node.  c: the node's configuration, m: the metadata of    *)
(* the message, fs: the filesystem, rem: the version the remote is at,     *)
(* fault: the failure injected into the collaborators.  The result holds   *)
(* the metadata and filesystem after the call, the trace ev, and the       *)
(* values the call resolved.                                               *)

Result(m, fs, ev, workDir, repository, ref) ==
    [meta |-> m, fs |-> fs, ev |-> ev, workDir |-> workDir,
     repository |-> repository, ref |-> ref]

\* git_clone.go:165-173: the outcome signalled for the error Pull returned
PullOutcome_NoRemap(err) ==
    IF err # NoErr THEN TellFailure(err) ELSE TellSuccess

PullOutcome(err) ==
    IF err # NoErr
    THEN IF err = NoErrAlreadyUpToDate THEN TellSuccess ELSE TellFailure(err)
    ELSE TellSuccess

GitCloneNodeOnMsg(c, m, fs, rem, fault) ==
    LET evn == Evn("gitClone", c, m)
        ref == getReferenceName(c, m, evn)
        workDir == getWorkDir(c, m, evn)
        m1 == [m EXCEPT !.workDir = workDir]
        repository == getRepository(c, m1, evn)
        st == Stat(fs, workDir)
        head == <<PutWorkDir, E("os.Stat", st)>>
        auth == getAuthMethod(c, fault)
        authEv == E("getAuthMethod", auth.err)
        R(fs1, ev) == Result(m1, fs1, ev, workDir, repository, ref)
    IN IF IsNotExist(st)
       THEN IF auth.err # NoErr
            THEN R(fs, head \o <<authEv, TellFailure(auth.err)>>)
            ELSE LET cl == PlainClone(fs, rem, workDir, repository, fault)
                 IN R(cl.fs, head \o <<authEv, E("PlainClone", cl.err),
                                       IF cl.err # NoErr THEN TellFailure(cl.err)
                                       ELSE TellSuccess>>)
       ELSE LET op == PlainOpen(fs, workDir)
                openEv == E("PlainOpen", op)
                wt == IF fault = "worktree" THEN ErrIsBareRepository ELSE NoErr
                wtEv == E("Worktree", wt)
            IN IF op # NoErr THEN R(fs, head \o <<openEv, TellFailure(op)>>)
               ELSE IF wt # NoErr
               THEN R(fs, head \o <<openEv, wtEv, TellFailure(wt)>>)
               ELSE IF auth.err # NoErr
               THEN R(fs, head \o <<openEv, wtEv, authEv, TellFailure(auth.err)>>)
               ELSE LET pl == Pull(fs, rem, workDir, fault)
                    IN R(pl.fs, head \o <<openEv, wtEv, authEv, E("Pull", pl.err),
                                          PullOutcome(pl.err)>>)

\* the identifier of the n-th commit (tag) of a repository
CommitHash(n) == <<"c", ToString(n)>>

TagHash(n) == <<"t", ToString(n)>>

CommitChanges_HashOnFailure(m1, fs, fault, workDir, repository, pre) ==
    LET r == fs.repos[Target(workDir)]
        add == IF fault = "add" THEN ErrAddGlob ELSE NoErr
        addEv == E("AddGlob", add)
        cm == IF fault = "commit" THEN ErrCommit ELSE NoErr
        cmEv == E("Commit", cm)
        r2 == [r EXCEPT !.commits = r.commits + 1, !.dirty = FALSE]
    IN IF add # NoErr
       THEN Result(m1, fs, pre \o <<addEv, TellFailure(add)>>, workDir, repository, <<>>)
       ELSE IF cm # NoErr
       THEN Result([m1 EXCEPT !.hash = CommitHash(r2.commits)], fs,
                   pre \o <<addEv, cmEv, PutHash, TellFailure(cm)>>,
                   workDir, repository, <<>>)
       ELSE Result([m1 EXCEPT !.hash = CommitHash(r2.commits)],
                   PutRepo(fs, workDir, r2),
                   pre \o <<addEv, cmEv, PutHash, TellSuccess>>,
                   workDir, repository, <<>>)

\* part_001:103-121: stage, commit, write the hash, signal Success
CommitChanges(m1, fs, fault, workDir, repository, pre) ==
    LET r == fs.repos[Target(workDir)]
        add == IF fault = "add" THEN ErrAddGlob ELSE NoErr
        addEv == E("AddGlob", add)
        cm == IF fault = "commit" THEN ErrCommit ELSE NoErr
        cmEv == E("Commit", cm)
        r2 == [r EXCEPT !.commits = r.commits + 1, !.dirty = FALSE]
    IN IF add # NoErr
       THEN Result(m1, fs, pre \o <<addEv, TellFailure(add)>>, workDir, repository, <<>>)
       ELSE IF cm # NoErr
       THEN Result(m1, fs, pre \o <<addEv, cmEv, TellFailure(cm)>>,
                   workDir, repository, <<>>)
       ELSE Result([m1 EXCEPT !.hash = CommitHash(r2.commits)],
                   PutRepo(fs, workDir, r2),
                   pre \o <<addEv, cmEv, PutHash, TellSuccess>>,
                   workDir, repository, <<>>)

\* part_001:100-122: what commit does once the status is known
CommitOnStatus_NoCleanCheck(m1, fs, fault, workDir, repository, pre) ==
    CommitChanges(m1, fs, fault, workDir, repository, pre)

CommitOnStatus(m1, fs, fault, workDir, repository, pre) ==
    IF ~fs.repos[Target(workDir)].dirty
    THEN Result(m1, fs, pre \o <<TellFailure(ErrNoChanges)>>, workDir, repository, <<>>)
    ELSE CommitChanges(m1, fs, fault, workDir, repository, pre)

GitCommitNodeOnMsg(c, m, fs, rem, fault) ==
    LET evn == Evn("gitCommit", c, m)
        workDir == getWorkDir(c, m, evn)
        m1 == [m EXCEPT !.workDir = workDir]
        repository == getRepository(c, m, evn)
        op == PlainOpen(fs, workDir)
        openEv == E("PlainOpen", op)
        wt == IF fault = "worktree" THEN ErrIsBareRepository ELSE NoErr
        wtEv == E("Worktree", wt)
        stt == IF fault = "status" THEN ErrStatus ELSE NoErr
        sttEv == E("Status", stt)
        R(ev) == Result(m1, fs, ev, workDir, repository, <<>>)
    IN IF op # NoErr THEN R(<<PutWorkDir, openEv, TellFailure(op)>>)
       ELSE IF wt # NoErr THEN R(<<PutWorkDir, openEv, wtEv, TellFailure(wt)>>)
       ELSE IF stt # NoErr
       THEN R(<<PutWorkDir, openEv, wtEv, sttEv, TellFailure(stt)>>)
       ELSE CommitOnStatus(m1, fs, fault, workDir, repository,
                           <<PutWorkDir, openEv, wtEv, sttEv>>)

GitCreateTagNodeOnMsg(c, m, fs, rem, fault) ==
    LET evn == Evn("gitCreateTag", c, m)
        workDir == getWorkDir(c, m, evn)
        m1 == [m EXCEPT !.workDir = workDir]
        repository == getRepository(c, m, evn)
        op == PlainOpen(fs, workDir)
        openEv == E("PlainOpen", op)
        R(m2, fs2, ev) == Result(m2, fs2, ev, workDir, repository, <<>>)
    IN IF op # NoErr THEN R(m1, fs, <<PutWorkDir, openEv, TellFailure(op)>>)
       ELSE LET r == fs.repos[Target(workDir)]
                \* r.Head(): a repository without commits has no HEAD to resolve
                hd == IF r.commits = 0 THEN ErrReferenceNotFound ELSE NoErr
                hdEv == E("Head", hd)
                ob == IF fault = "object" THEN ErrObjectNotFound ELSE NoErr
                obEv == E("CommitObject", ob)
                tg == IF fault = "tag" THEN ErrTagExists ELSE NoErr
                tgEv == E("CreateTag", tg)
                r2 == [r EXCEPT !.tags = r.tags + 1]
            IN \* the error of Head is dropped and commit is nil: commit.Hash()
               \* dereferences the nil reference
               IF hd # NoErr THEN R(m1, fs, <<PutWorkDir, openEv, hdEv, Panic>>)
               ELSE IF ob # NoErr
               THEN R(m1, fs, <<PutWorkDir, openEv, hdEv, obEv, TellFailure(ob)>>)
               ELSE IF tg # NoErr
               THEN R(m1, fs, <<PutWorkDir, openEv, hdEv, obEv, tgEv, TellFailure(tg)>>)
               ELSE R([m1 EXCEPT !.hash = TagHash(r2.tags)], PutRepo(fs, workDir, r2),
                      <<PutWorkDir, openEv, hdEv, obEv, tgEv, PutHash, TellSuccess>>)

GitPushNodeOnMsg(c, m, fs, rem, fault) ==
    LET evn == Evn("gitPush", c, m)
        workDir == getWorkDir(c, m, evn)
        m1 == [m EXCEPT !.workDir = workDir]
        repository == getRepository(c, m1, evn)
        op == PlainOpen(fs, workDir)
        openEv == E("PlainOpen", op)
        auth == getAuthMethod(c, fault)
        authEv == E("getAuthMethod", auth.err)
        ps == Push(fault)
        R(ev) == Result(m1, fs, ev, workDir, repository, <<>>)
    IN IF op # NoErr THEN R(<<PutWorkDir, openEv, TellFailure(op)>>)
       ELSE IF auth.err # NoErr
       THEN R(<<PutWorkDir, openEv, authEv, TellFailure(auth.err)>>)
       ELSE R(<<PutWorkDir, openEv, authEv, E("Push", ps),
                IF ps # NoErr THEN TellFailure(ps) ELSE TellSuccess>>)

GitLogNodeOnMsg_PutAfterOpen(c, m, fs, rem, fault) ==
    LET evn == Evn("gitLog", c, m)
        workDir == getWorkDir(c, m, evn)
        m1 == [m EXCEPT !.workDir = workDir]
        repository == getRepository(c, m, evn)
        op == PlainOpen(fs, workDir)
        openEv == E("PlainOpen", op)
        lg == IF fault = "log" THEN ErrLog
              ELSE IF op = NoErr /\ fs.repos[Target(workDir)].commits = 0
              THEN ErrReferenceNotFound
              ELSE NoErr
        R(ev) == Result(m1, fs, ev, workDir, repository, <<>>)
    IN IF op # NoErr
       THEN Result(m, fs, <<openEv, TellFailure(op)>>, workDir, repository, <<>>)
       ELSE IF lg # NoErr THEN R(<<openEv, PutWorkDir, E("Log", lg), TellFailure(lg)>>)
       ELSE R(<<openEv, PutWorkDir, E("Log", lg), TellSuccess, IterClose>>)

GitLogNodeOnMsg(c, m, fs, rem, fault) ==
    LET evn == Evn("gitLog", c, m)
        workDir == getWorkDir(c, m, evn)
        m1 == [m EXCEPT !.workDir = workDir]
        repository == getRepository(c, m, evn)
        op == PlainOpen(fs, workDir)
        openEv == E("PlainOpen", op)
        lg == IF fault = "log" THEN ErrLog
              ELSE IF op = NoErr /\ fs.repos[Target(workDir)].commits = 0
              THEN ErrReferenceNotFound
              ELSE NoErr
        R(ev) == Result(m1, fs, ev, workDir, repository, <<>>)
    IN IF op # NoErr THEN R(<<PutWorkDir, openEv, TellFailure(op)>>)
       ELSE IF lg # NoErr THEN R(<<PutWorkDir, openEv, E("Log", lg), TellFailure(lg)>>)
       ELSE R(<<PutWorkDir, openEv, E("Log", lg), TellSuccess, IterClose>>)

PsNodeOnMsg(c, m, fs, rem, fault) ==
    Result(m, fs, <<TellSuccess>>, <<>>, <<>>, <<>>)

OnMsg(op, c, m, fs, rem, fault) ==
    CASE op = "gitClone" -> GitCloneNodeOnMsg(c, m, fs, rem, fault)
      [] op = "gitCommit" -> GitCommitNodeOnMsg(c, m, fs, rem, fault)
      [] op = "gitCreateTag" -> GitCreateTagNodeOnMsg(c, m, fs, rem, fault)
      [] op = "gitPush" -> GitPushNodeOnMsg(c, m, fs, rem, fault)
      [] op = "gitLog" -> GitLogNodeOnMsg(c, m, fs, rem, fault)
      [] op = "ps" -> PsNodeOnMsg(c, m, fs, rem, fault)

-----------------------------------------------------------------------------
(* the inputs explored *)

S_b == <<"/", "b">>

S_w == <<"/", "w">>

S_br == <<"/", "b", "/", "r">>

S_hr_git == <<"h", "/", "r", ".", "g", "i", "t">>

S_hr == <<"h", "/", "r">>

S_h_slash == <<"h", "/">>

S_hr_git_git == <<"h", "/", "r", ".", "g", "i", "t", ".", "g", "i", "t">>

S_ssh_url == <<"g", ":", "o", "/", "s", ".", "g", "i", "t">>

S_main == <<"m", "a", "i", "n">>

S_d_dslash == <<"d", ":", "/", "/">>

S_rel_dots == <<"a", "/", ".", ".", "/", "c", "/">>

Config(rep, dir, ref, auth) ==
    [Repository |-> rep, Directory |-> dir, Reference |-> ref, AuthType |-> auth,
     Pattern |-> <<"*">>, Tag |-> <<"v", "1">>, SigName |-> <<"n">>,
     SigEmail |-> <<"e">>, RefSpecs |-> <<"x", ":", "y">>,
     StartTime |-> <<>>, EndTime |-> <<>>,
     AuthUser |-> <<"u">>, AuthPassword |-> <<"p">>, AuthPemFile |-> <<"k">>,
     Options |-> <<>>, Message |-> <<"m">>]

Metadata(wd, ref, ssh, http) ==
    [workDir |-> wd, ref |-> ref, gitSshUrl |-> ssh, gitHttpUrl |-> http,
     hash |-> <<>>]

\* rule chains: every node of the chain is initialised from one configuration map
ChainCfgs ==
    {Config(rep, dir, <<>>, auth) :
        rep \in {<<>>, S_hr_git, S_h_slash}, dir \in {<<>>, S_b},
        auth \in {"token", "bogus"}}

ChainMetas ==
    {Metadata(wd, S_main, urls[1], urls[2]) :
        wd \in {<<>>, S_w}, urls \in {<<(<<>>), (<<>>)>>, <<S_ssh_url, S_hr_git>>}}

EmptyFs == [dirs |-> {Cwd}, repos |-> <<>>]

\* the filesystems a chain starts on: nothing there; /b/r a clone of the remote;
\* /b/r a fresh repository without commits; /b/r a directory without repository
ChainFss ==
    {EmptyFs,
     PutRepo(EmptyFs, S_br, [ver |-> 0, dirty |-> FALSE, commits |-> 1, tags |-> 0]),
     PutRepo(EmptyFs, S_br, [ver |-> 0, dirty |-> TRUE, commits |-> 0, tags |-> 0]),
     [dirs |-> {Cwd, S_br}, repos |-> <<>>]}

\* field resolution: the shapes of directory, URL, reference and tag
ResolveCfgs ==
    {[Config(rep, dir, ref, auth) EXCEPT !.Message = msg] :
        rep \in {<<>>, S_hr_git, S_hr, S_h_slash, S_hr_git_git, <<MarkerRepoUrl>>},
        dir \in {<<>>, S_b, S_d_dslash, S_rel_dots, <<MarkerBase, "/", "x">>},
        ref \in {<<>>, S_main, <<MarkerBranch>>},
        auth \in {"ssh-key", "ssh", "token", "password", "", "bogus"},
        msg \in {<<"m">>, <<"o", "n", " ", MarkerBranch>>}}

ResolveMetas ==
    {Metadata(wd, ref, ssh, http) :
        wd \in {<<>>, S_w}, ref \in {<<>>, <<"d">>},
        ssh \in {<<>>, S_ssh_url}, http \in {<<>>, S_hr_git}}

NoCall ==
    [op |-> "none", ev |-> <<>>, workDir |-> <<>>, base |-> <<>>,
     repository |-> <<>>, ref |-> <<>>, metaIn |-> Metadata(<<>>, <<>>, <<>>, <<>>),
     remote |-> 0]

-----------------------------------------------------------------------------
(* rule chains *)

Init ==
    /\ cfg \in ChainCfgs
    /\ meta \in ChainMetas
    /\ \E fs \in ChainFss : dirs = fs.dirs /\ repos = fs.repos
    /\ remote = 0
    /\ last = NoCall
    /\ prev = NoCall
    /\ steps = 0

\* the failure injected into the collaborators of a node in one invocation; a
\* handler returns at the first error, so one failure per invocation is enough
FaultsOf(op) ==
    CASE op = "gitClone" -> {"none", "key", "net", "worktree"}
      [] op = "gitCommit" -> {"none", "worktree", "status", "add", "commit"}
      [] op = "gitCreateTag" -> {"none", "object", "tag"}
      [] op = "gitPush" -> {"none", "key", "net", "uptodate"}
      [] op = "gitLog" -> {"none", "log"}
      [] op = "ps" -> {"none"}

\* the rule engine hands the message to node op
Invoke(op) ==
    /\ steps < MaxSteps
    /\ \E fault \in FaultsOf(op) :
          LET r == OnMsg(op, cfg, meta, [dirs |-> dirs, repos |-> repos], remote, fault)
          IN /\ meta' = r.meta
             /\ dirs' = r.fs.dirs
             /\ repos' = r.fs.repos
             /\ last' = [op |-> op, ev |-> r.ev, workDir |-> r.workDir,
                         base |-> IF op \in GitOps
                                  THEN getBaseDir(cfg, meta, Evn(op, cfg, meta))
                                  ELSE <<>>,
                         repository |-> r.repository, ref |-> r.ref,
                         metaIn |-> meta, remote |-> remote]
    /\ prev' = last
    /\ steps' = steps + 1
    /\ UNCHANGED <<cfg, remote>>

Clone == Invoke("gitClone")

Commit == Invoke("gitCommit")

CreateTag == Invoke("gitCreateTag")

PushOp == Invoke("gitPush")

Log == Invoke("gitLog")

Ps == Invoke("ps")

\* the caller sends a new message through the chain
NewMsg ==
    /\ steps < MaxSteps
    /\ meta' \in ChainMetas
    /\ steps' = steps + 1
    /\ UNCHANGED <<cfg, dirs, repos, remote, last, prev>>

\* somebody changes a file in the working tree of a repository
Edit ==
    /\ steps < MaxSteps
    /\ \E p \in DOMAIN repos :
          /\ ~repos[p].dirty
          /\ repos' = [repos EXCEPT ![p].dirty = TRUE]
    /\ steps' = steps + 1
    /\ UNCHANGED <<cfg, meta, dirs, remote, last, prev>>

\* the remote receives a commit
RemoteAdvance ==
    /\ steps < MaxSteps
    /\ remote' = remote + 1
    /\ steps' = steps + 1
    /\ UNCHANGED <<cfg, meta, dirs, repos, last, prev>>

Next ==
    \/ Clone
    \/ Commit
    \/ CreateTag
    \/ PushOp
    \/ Log
    \/ Ps
    \/ NewMsg
    \/ Edit
    \/ RemoteAdvance

Spec == Init /\ [][Next]_vars

-----------------------------------------------------------------------------
(* field resolution alone: what each node resolves from (cfg, meta) *)

InitResolve ==
    /\ cfg \in ResolveCfgs
    /\ meta \in ResolveMetas
    /\ dirs = EmptyFs.dirs
    /\ repos = EmptyFs.repos
    /\ remote = 0
    /\ last = NoCall
    /\ prev = NoCall
    /\ steps = 0

\* the head of OnMsg of node op: getReferenceName (clone-or-pull only),
\* getWorkDir, getRepository
Resolve(op) ==
    /\ last.op = "none"
    /\ LET evn == Evn(op, cfg, meta)
       IN last' = [op |-> op, ev |-> <<>>,
                   workDir |-> getWorkDir(cfg, meta, evn),
                   base |-> getBaseDir(cfg, meta, evn),
                   repository |-> getRepository(cfg, meta, evn),
                   ref |-> IF op = "gitClone" THEN getReferenceName(cfg, meta, evn)
                           ELSE <<>>,
                   message |-> IF op \in {"gitCommit", "gitCreateTag"}
                               THEN getMessage(cfg, evn)
                               ELSE <<>>,
                   metaIn |-> meta, remote |-> remote]
    /\ UNCHANGED <<cfg, meta, dirs, repos, remote, prev, steps>>

NextResolve == \E op \in GitOps : Resolve(op)

SpecResolve == InitResolve /\ [][NextResolve]_vars

-----------------------------------------------------------------------------
(* reading a trace *)

Made(ev, call) == \E i \in DOMAIN ev : ev[i].call = call

\* the error the (first) call of that name returned
ErrOf(ev, call) == ev[CHOOSE i \in DOMAIN ev : ev[i].call = call].err

Signals(ev) ==
    Cardinality({i \in DOMAIN ev : ev[i].call \in {"TellSuccess", "TellFailure"}})

Succeeded(ev) == Signals(ev) = 1 /\ \E i \in DOMAIN ev : ev[i] = TellSuccess

Failed(ev) == Signals(ev) = 1 /\ \E i \in DOMAIN ev : ev[i].call = "TellFailure"

FailedWith(ev, err) == Signals(ev) = 1 /\ \E i \in DOMAIN ev : ev[i] = TellFailure(err)

FsCalls == {"os.Stat", "PlainOpen", "Worktree"}

NetCalls == {"PlainClone", "Pull", "Push"}

MadeAny(ev, calls) == \E i \in DOMAIN ev : ev[i].call \in calls

\* errors of the environment: transport, key file, bare repository
EnvErrs == {ErrTransport, ErrKeyFile, ErrIsBareRepository}

NoEnvErr(ev) == \A i \in DOMAIN ev : ev[i].err \notin EnvErrs

-----------------------------------------------------------------------------
(* the resolution policy the specification states (4.2): an empty field    *)
(* falls back to metadata, a field with markers is rendered, any other is  *)
(* the literal                                                             *)

Rendered(s, m) ==
    IF CheckHasVar(s) THEN ExecuteTemplate(s, GetEvnAndMetadata(m)) ELSE s

PolicyBaseDir(c, m) == IF c.Directory = <<>> THEN m.workDir ELSE Rendered(c.Directory, m)

PolicyRepository(c, m) ==
    IF c.Repository = <<>>
    THEN IF c.AuthType \in {"ssh-key", "ssh"} THEN m.gitSshUrl ELSE m.gitHttpUrl
    ELSE Rendered(c.Repository, m)

PolicyReference(c, m) == IF c.Reference = <<>> THEN m.ref ELSE Rendered(c.Reference, m)

\* the last "/"-separated segment of u
RECURSIVE LastSegment(_)
LastSegment(u) ==
    IF u = <<>> THEN <<>>
    ELSE IF u[Len(u)] = "/" THEN <<>>
    ELSE Append(LastSegment(SubSeq(u, 1, Len(u) - 1)), u[Len(u)])

WithoutDotGit(n) ==
    IF Len(n) >= 4 /\ n[Len(n) - 3] = "." /\ n[Len(n) - 2] = "g"
       /\ n[Len(n) - 1] = "i" /\ n[Len(n)] = "t"
    THEN SubSeq(n, 1, Len(n) - 4)
    ELSE n

-----------------------------------------------------------------------------
(* C1 *)

\* the message a later node receives is the one clone-or-pull left
SameMessageAfterClone ==
    /\ prev.op = "gitClone"
    /\ last.op \in GitOps
    /\ last.metaIn = [prev.metaIn EXCEPT !.workDir = prev.workDir]

\* C1: once clone-or-pull has written its resolved work directory into
\* metadata workDir, a later git operation on the same message with an empty
\* Directory resolves the work directory clone-or-pull resolved.
C1_DownstreamReusesWorkDir ==
    (SameMessageAfterClone /\ cfg.Directory = <<>>) => last.workDir = prev.workDir

-----------------------------------------------------------------------------
(* C2 *)

\* two successive clone-or-pull invocations, same configuration, same input
\* metadata, remote unchanged, the first one found the directory absent,
\* recognised authentication type, a URL, no failure of the environment
TwoClones ==
    /\ prev.op = "gitClone"
    /\ last.op = "gitClone"
    /\ last.metaIn = prev.metaIn
    /\ last.remote = prev.remote
    /\ IsNotExist(ErrOf(prev.ev, "os.Stat"))
    /\ getAuthMethod(cfg, "none").err = NoErr
    /\ prev.repository # <<>>
    /\ NoEnvErr(prev.ev)
    /\ NoEnvErr(last.ev)

\* C2: clone-or-pull twice in succession, same configuration and input
\* metadata, unchanged remote: Success both times, the first by cloning, the
\* second by a pull that is already up to date, and the same work directory.
C2_CloneTwiceIdempotent ==
    TwoClones =>
        /\ Succeeded(prev.ev)
        /\ Made(prev.ev, "PlainClone")
        /\ Succeeded(last.ev)
        /\ Made(last.ev, "Pull")
        /\ ErrOf(last.ev, "Pull") = NoErrAlreadyUpToDate
        /\ last.workDir = prev.workDir

\* the same, for every work directory that is not the empty path
C2_ExceptEmptyPath ==
    (TwoClones /\ prev.workDir # <<>>) =>
        /\ Succeeded(prev.ev)
        /\ Made(prev.ev, "PlainClone")
        /\ Succeeded(last.ev)
        /\ Made(last.ev, "Pull")
        /\ ErrOf(last.ev, "Pull") = NoErrAlreadyUpToDate
        /\ last.workDir = prev.workDir

C2_ExceptEmptyPath_Reached ==
    TwoClones /\ prev.workDir # <<>> /\ Succeeded(last.ev)

-----------------------------------------------------------------------------
(* C3 *)

\* C3: the resolved work directory is join(D, last "/"-segment of U without
\* one trailing ".git"), D and U the resolved base directory and URL, and
\* the same (configuration, metadata) gives it in all five git operations.
C3_SameWorkDirInAllOperations ==
    last.op \in GitOps =>
        last.workDir =
            PathJoin(PolicyBaseDir(cfg, last.metaIn),
                     WithoutDotGit(LastSegment(PolicyRepository(cfg, last.metaIn))))

-----------------------------------------------------------------------------
(* C4 *)

\* C4: base directory, repository URL and reference resolve to the metadata
\* fallback when configured empty, to the literal when configured without
\* markers, and to the rendered template when configured with markers.
C4_ConfigPrecedence ==
    last.op \in GitOps =>
        /\ last.base = PolicyBaseDir(cfg, last.metaIn)
        /\ last.repository = PolicyRepository(cfg, last.metaIn)
        /\ last.op = "gitClone" => last.ref = PolicyReference(cfg, last.metaIn)

-----------------------------------------------------------------------------
(* C5 *)

\* C5: with an empty configured repository URL the resolved URL is metadata
\* gitSshUrl for authentication type "ssh-key" or "ssh", and metadata
\* gitHttpUrl for every other type.
C5_RepositoryFallbackByAuthType ==
    (last.op \in GitOps /\ cfg.Repository = <<>>) =>
        last.repository =
            IF cfg.AuthType = "ssh-key" \/ cfg.AuthType = "ssh"
            THEN last.metaIn.gitSshUrl
            ELSE last.metaIn.gitHttpUrl

C5_SshAliasTakesSshUrl ==
    /\ last.op = "gitPush"
    /\ cfg.Repository = <<>>
    /\ cfg.AuthType = "ssh"
    /\ last.metaIn.gitSshUrl = S_ssh_url
    /\ last.metaIn.gitHttpUrl = S_hr_git
    /\ last.repository = S_ssh_url

-----------------------------------------------------------------------------
(* C6 *)

\* C6: on the directory-present path of clone-or-pull, a pull that returns
\* already-up-to-date or no error is reported as Success, and a pull that
\* returns any other error is reported as Failure carrying that error.
C6_PullOutcome ==
    (last.op = "gitClone" /\ Made(last.ev, "Pull")) =>
        LET err == ErrOf(last.ev, "Pull")
        IN IF err = NoErrAlreadyUpToDate \/ err = NoErr
           THEN Succeeded(last.ev)
           ELSE FailedWith(last.ev, err)

C6_UpToDateIsSuccess ==
    /\ last.op = "gitClone"
    /\ Made(last.ev, "Pull")
    /\ ErrOf(last.ev, "Pull") = NoErrAlreadyUpToDate
    /\ Succeeded(last.ev)

-----------------------------------------------------------------------------
(* C7 *)

\* C7: every invocation of OnMsg of every node ends having signalled exactly
\* one outcome, Success or Failure, and never faults.
C7_ExactlyOneOutcome ==
    last.op # "none" => (Signals(last.ev) = 1 /\ ~Made(last.ev, "panic"))

-----------------------------------------------------------------------------
(* C8 *)

UnknownAuthType == cfg.AuthType \notin {"ssh-key", "ssh", "username-password", "password", "token"}

\* C8 as stated: with an unrecognised authentication type, clone-or-pull and
\* push report Failure before any filesystem access and any network access.
C8_UnknownAuthBeforeAnyAccess ==
    (last.op \in {"gitClone", "gitPush"} /\ UnknownAuthType) =>
        /\ Failed(last.ev)
        /\ ~MadeAny(last.ev, FsCalls \cup NetCalls)

\* C8 amended: with an unrecognised authentication type, clone-or-pull and
\* push report Failure and attempt no network access (clone, pull, push);
\* the directory stat and the repository and working-tree opens that come
\* before the authentication step are made, and only when they all succeed
\* is the reported error the unsupported-type error.
C8_UnknownAuthBeforeNetwork ==
    (last.op \in {"gitClone", "gitPush"} /\ UnknownAuthType) =>
        /\ Failed(last.ev)
        /\ ~MadeAny(last.ev, NetCalls)
        /\ Made(last.ev, "getAuthMethod") => FailedWith(last.ev, ErrAuthType)
        /\ ~Made(last.ev, "getAuthMethod") =>
              \E i \in DOMAIN last.ev :
                  /\ last.ev[i].call \in {"PlainOpen", "Worktree"}
                  /\ FailedWith(last.ev, last.ev[i].err)

C8_UnknownAuthAfterStat ==
    /\ last.op = "gitClone"
    /\ UnknownAuthType
    /\ Made(last.ev, "os.Stat")
    /\ Made(last.ev, "PlainOpen")
    /\ FailedWith(last.ev, ErrAuthType)

-----------------------------------------------------------------------------
(* C9 *)

\* C9: when the repository URL resolves to an unusable value (configured
\* empty, no gitSshUrl/gitHttpUrl in metadata), clone-or-pull and push report
\* Failure and abort before any I/O.
C9_UnusableUrlAbortsBeforeIO ==
    (/\ last.op \in {"gitClone", "gitPush"}
     /\ cfg.Repository = <<>>
     /\ last.metaIn.gitSshUrl = <<>>
     /\ last.metaIn.gitHttpUrl = <<>>) =>
        /\ Failed(last.ev)
        /\ ~MadeAny(last.ev, FsCalls \cup NetCalls)

-----------------------------------------------------------------------------
(* C10 *)

\* C10: commit on a working tree whose status is clean reports Failure with
\* the no-changes-to-commit error, stages nothing, creates no commit and
\* does not write metadata hash.
C10_CleanTreeCommitFails ==
    [][(/\ Commit
        /\ Made(last'.ev, "Status")
        /\ ErrOf(last'.ev, "Status") = NoErr
        /\ ~repos[Target(last'.workDir)].dirty) =>
           /\ FailedWith(last'.ev, ErrNoChanges)
           /\ ~Made(last'.ev, "AddGlob")
           /\ ~Made(last'.ev, "Commit")
           /\ ~Made(last'.ev, "PutValue(hash)")
           /\ repos' = repos
           /\ meta'.hash = meta.hash]_vars

C10_CleanTreeCommitSeen ==
    /\ last.op = "gitCommit"
    /\ Made(last.ev, "Status")
    /\ ErrOf(last.ev, "Status") = NoErr
    /\ ~repos[Target(last.workDir)].dirty
    /\ FailedWith(last.ev, ErrNoChanges)

-----------------------------------------------------------------------------
(* log-query: times *)

Digits == {"0", "1", "2", "3", "4", "5", "6", "7", "8", "9"}

DigitVal(ch) ==
    CASE ch = "0" -> 0 [] ch = "1" -> 1 [] ch = "2" -> 2 [] ch = "3" -> 3
      [] ch = "4" -> 4 [] ch = "5" -> 5 [] ch = "6" -> 6 [] ch = "7" -> 7
      [] ch = "8" -> 8 [] ch = "9" -> 9

IsNum(s) == \A i \in 1..Len(s) : s[i] \in Digits

RECURSIVE Num(_)
Num(s) == IF s = <<>> THEN 0 ELSE 10 * Num(SubSeq(s, 1, Len(s) - 1)) + DigitVal(s[Len(s)])

IsLeap(y) == y % 4 = 0 /\ (y % 100 # 0 \/ y % 400 = 0)

DaysIn(y, mo) ==
    IF mo = 2 THEN (IF IsLeap(y) THEN 29 ELSE 28)
    ELSE IF mo \in {4, 6, 9, 11} THEN 30 ELSE 31

\* a time.Time in UTC: the day and the second of the day, numbered so that
\* later days have larger numbers
Instant(y, mo, d, h, mi, sec) == <<(y * 13 + mo) * 32 + d, (h * 60 + mi) * 60 + sec>>

\* time.Time{}: January 1, year 1, 00:00:00 UTC
ZeroTime == Instant(1, 1, 1, 0, 0, 0)

IsZero(t) == t = ZeroTime

Before(t, u) == t[1] < u[1] \/ (t[1] = u[1] /\ t[2] < u[2])

After(t, u) == Before(u, t)

\* the layout "2006-01-02": four digits, two digits, two digits
IsDateLayout(s) ==
    /\ Len(s) = 10
    /\ s[5] = "-" /\ s[8] = "-"
    /\ IsNum(SubSeq(s, 1, 4)) /\ IsNum(SubSeq(s, 6, 7)) /\ IsNum(SubSeq(s, 9, 10))
    /\ LET y == Num(SubSeq(s, 1, 4))
           mo == Num(SubSeq(s, 6, 7))
           d == Num(SubSeq(s, 9, 10))
       IN mo \in 1..12 /\ d \in 1..DaysIn(y, mo)

\* the layout "15:04:05"
IsClockLayout(s) ==
    /\ Len(s) = 8
    /\ s[3] = ":" /\ s[6] = ":"
    /\ IsNum(SubSeq(s, 1, 2)) /\ IsNum(SubSeq(s, 4, 5)) /\ IsNum(SubSeq(s, 7, 8))
    /\ Num(SubSeq(s, 1, 2)) < 24 /\ Num(SubSeq(s, 4, 5)) < 60 /\ Num(SubSeq(s, 7, 8)) < 60

\* time.Parse("2006-01-02 15:04:05", s): the time and whether parsing failed;
\* a failed parse returns time.Time{}
TimeParse(s) ==
    IF /\ Len(s) = 19
       /\ IsDateLayout(SubSeq(s, 1, 10))
       /\ s[11] = " "
       /\ IsClockLayout(SubSeq(s, 12, 19))
    THEN [t |-> Instant(Num(SubSeq(s, 1, 4)), Num(SubSeq(s, 6, 7)), Num(SubSeq(s, 9, 10)),
                        Num(SubSeq(s, 12, 13)), Num(SubSeq(s, 15, 16)), Num(SubSeq(s, 18, 19))),
          err |-> FALSE]
    ELSE [t |-> ZeroTime, err |-> TRUE]

StartOfDay == <<" ", "0", "0", ":", "0", "0", ":", "0", "0">>

EndOfDay == <<" ", "2", "3", ":", "5", "9", ":", "5", "9">>

\* startTimeStr after the normalisation of OnMsg
NormalizeStart(startTimeStr) ==
    IF startTimeStr # <<>> /\ Len(startTimeStr) = 10 THEN startTimeStr \o StartOfDay
    ELSE startTimeStr

NormalizeEnd_StartOfDay(endTimeStr) ==
    IF endTimeStr # <<>> /\ Len(endTimeStr) = 10 THEN endTimeStr \o StartOfDay
    ELSE endTimeStr

\* endTimeStr after the normalisation of OnMsg
NormalizeEnd(endTimeStr) ==
    IF endTimeStr # <<>> /\ Len(endTimeStr) = 10 THEN endTimeStr \o EndOfDay
    ELSE endTimeStr

-----------------------------------------------------------------------------
(* log-query: the history and its walk *)

\* the most commits a history of the model holds
MaxCommits == 3

\* the parents of commit i: commits are numbered from the root, HEAD is h.n; in
\* a "merge" history HEAD merges two branches that fork off commit h.n - 3
Parents(h, i) ==
    IF h.shape = "merge" /\ i = h.n THEN {i - 1, i - 2}
    ELSE IF h.shape = "merge" /\ i \in {h.n - 1, h.n - 2}
    THEN (IF h.n - 3 >= 1 THEN {h.n - 3} ELSE {})
    ELSE IF i > 1 THEN {i - 1} ELSE {}

\* the history r.Log walks: the commits reachable from HEAD
History(r) == [n |-> r.commits, shape |-> r.shape, when |-> r.when]

\* the top of the heap of the iterator: a commit no other is newer than
Top(h, heap) == CHOOSE c \in heap : \A d \in heap : ~After(h.when[d], h.when[c])

\* git.LogOrderCommitterTime, the commits iter.Next() returns before it returns
\* an error: the iterator pops the newest commit of its heap and pushes the
\* parents of that commit; it returns io.EOF when the heap is empty, and the
\* read error when the object of a parent (bad) cannot be read
RECURSIVE Walk(_, _, _, _)
Walk(h, heap, seen, bad) ==
    IF heap = {} THEN <<>>
    ELSE LET c == Top(h, heap)
             ps == Parents(h, c) \ (seen \cup {c})
         IN IF bad \in ps THEN <<>>
            ELSE <<c>> \o Walk(h, (heap \ {c}) \cup ps, seen \cup {c}, bad)

\* r.Log(&git.LogOptions{Order: git.LogOrderCommitterTime}): from HEAD
LogIter(h, bad) == Walk(h, {h.n}, {}, bad)

-----------------------------------------------------------------------------
(* log-query: OnMsg from the templates of the bounds to msg.Data *)

RECURSIVE TrimLeft(_)
TrimLeft(s) == IF s # <<>> /\ Head(s) = " " THEN TrimLeft(Tail(s)) ELSE s

RECURSIVE TrimRight(_)
TrimRight(s) ==
    IF s # <<>> /\ s[Len(s)] = " " THEN TrimRight(SubSeq(s, 1, Len(s) - 1)) ELSE s

\* strings.TrimSpace
TrimSpace(s) == TrimLeft(TrimRight(s))

\* str.NewTemplate(s).Execute(evn): a text without markers is returned as it is
TemplateExecute(s, evn) == IF CheckHasVar(s) THEN ExecuteTemplate(s, evn) ELSE s

Excluded_BoundsOut(when, startTime, endTime) ==
    \/ ~IsZero(startTime) /\ ~After(when, startTime)
    \/ ~IsZero(endTime) /\ ~Before(when, endTime)

\* the test of the time range in the loop
Excluded(when, startTime, endTime) ==
    \/ ~IsZero(startTime) /\ Before(when, startTime)
    \/ ~IsZero(endTime) /\ After(when, endTime)

\* the loop over iter.Next(): i commits are in messages already
RECURSIVE Collect(_, _, _, _, _, _)
Collect(h, walk, i, limit, startTime, endTime) ==
    IF walk = <<>> THEN <<>>
    ELSE IF Excluded(h.when[Head(walk)], startTime, endTime)
    THEN Collect(h, Tail(walk), i, limit, startTime, endTime)
    ELSE <<Head(walk)>>
         \o (IF limit # 0 /\ i + 1 >= limit THEN <<>>
             ELSE Collect(h, Tail(walk), i + 1, limit, startTime, endTime))

GitLogNodeStartTimeStr(c, evn) == NormalizeStart(TemplateExecute(TrimSpace(c.StartTime), evn))

GitLogNodeEndTimeStr(c, evn) == NormalizeEnd(TemplateExecute(TrimSpace(c.EndTime), evn))

\* messages: the commits of msg.Data, in order
LogMessages(c, evn, h, bad) ==
    Collect(h, LogIter(h, bad), 0, c.Limit,
            TimeParse(GitLogNodeStartTimeStr(c, evn)).t,
            TimeParse(GitLogNodeEndTimeStr(c, evn)).t)

-----------------------------------------------------------------------------
(* log-query: the queries explored *)

Day(d) == <<"2", "0", "2", "4", "-", "0", "1", "-", "0", d>>

Clock(h1, h2, m1, m2, s1, s2) == <<" ", h1, h2, ":", m1, m2, ":", s1, s2>>

T_d1_end == Instant(2024, 1, 1, 23, 59, 59)

T_d2_start == Instant(2024, 1, 2, 0, 0, 0)

T_d2_end == Instant(2024, 1, 2, 23, 59, 59)

T_d3_start == Instant(2024, 1, 3, 0, 0, 0)

CommitTimes == {T_d1_end, T_d2_start, T_d2_end, T_d3_start}

StartTimes ==
    {<<>>, Day("2"), Day("2") \o Clock("2", "3", "5", "9", "5", "9"),
     <<"2", "0", "2", "4", "-", "1", "-", "2">>, <<MarkerSince>>}

EndTimes ==
    {<<>>, Day("2"), Day("2") \o Clock("0", "0", "0", "0", "0", "0"),
     Day("2") \o <<" ">>, <<MarkerSince>>}

Limits == {0, 1, 2}

LogConfig(limit, startTime, endTime) ==
    [Limit |-> limit]
        @@ [Config(<<>>, S_b, <<>>, "token") EXCEPT !.StartTime = startTime,
                                                     !.EndTime = endTime]

LogCfgs ==
    {LogConfig(limit, st, et) : limit \in Limits, st \in StartTimes, et \in EndTimes}

LogRepos ==
    {[ver |-> 0, dirty |-> FALSE, commits |-> n, tags |-> 0, shape |-> sh, when |-> w] :
        <<n, sh, w>> \in
            {<<n, sh, w>> \in (0..MaxCommits) \X {"chain", "merge"}
                                \X UNION {[1..k -> CommitTimes] : k \in 0..MaxCommits} :
                Len(w) = n /\ (sh = "merge" => n >= 3)}}

LogFss == {EmptyFs} \cup {PutRepo(EmptyFs, S_br, r) : r \in LogRepos}

InitLog ==
    /\ cfg \in LogCfgs
    /\ meta = Metadata(<<>>, <<>>, <<>>, S_hr_git)
    /\ \E fs \in LogFss : dirs = fs.dirs /\ repos = fs.repos
    /\ remote = 0
    /\ last = NoCall
    /\ prev = NoCall
    /\ steps = 0

\* the commits whose object may be unreadable: none (0), or one below HEAD
BadCommits(fs, workDir, fault) ==
    IF fault = "none" /\ HasRepo(fs, workDir) /\ fs.repos[Target(workDir)].commits > 0
    THEN 0..(fs.repos[Target(workDir)].commits - 1)
    ELSE {0}

\* the rule engine hands the message to the log-query node
LogQuery ==
    /\ last.op = "none"
    /\ \E fault \in FaultsOf("gitLog") :
          LET fs == [dirs |-> dirs, repos |-> repos]
              evn == Evn("gitLog", cfg, meta)
              r == GitLogNodeOnMsg(cfg, meta, fs, remote, fault)
          IN \E bad \in BadCommits(fs, r.workDir, fault) :
                /\ meta' = r.meta
                /\ last' = [op |-> "gitLog", ev |-> r.ev, workDir |-> r.workDir,
                            base |-> getBaseDir(cfg, meta, evn),
                            repository |-> r.repository, ref |-> r.ref,
                            metaIn |-> meta, remote |-> remote,
                            startTimeStr |-> GitLogNodeStartTimeStr(cfg, evn),
                            endTimeStr |-> GitLogNodeEndTimeStr(cfg, evn),
                            bad |-> bad,
                            data |-> IF Succeeded(r.ev)
                                     THEN LogMessages(cfg, evn, History(repos[r.workDir]), bad)
                                     ELSE <<>>]
    /\ UNCHANGED <<cfg, dirs, repos, remote, prev, steps>>

NextLog == LogQuery

SpecLog == InitLog /\ [][NextLog]_vars

-----------------------------------------------------------------------------
(* log-query: what the specification says of the bounds and of the result *)

\* the configured value of a bound as the node sees it on this message
BoundValue(s) == ExecuteTemplate(TrimSpace(s), GetEvnAndMetadata(meta))

HasTimeOfDay(v) ==
    /\ Len(v) = 19
    /\ IsDateLayout(SubSeq(v, 1, 10))
    /\ v[11] = " "
    /\ IsClockLayout(SubSeq(v, 12, 19))

DateAt(v, h, mi, sec) ==
    Instant(Num(SubSeq(v, 1, 4)), Num(SubSeq(v, 6, 7)), Num(SubSeq(v, 9, 10)), h, mi, sec)

\* the bound a value stands for: set is FALSE when the value is empty, is not
\* a date or a date with a time of day, or is the zero time
PolicyBound(v, h, mi, sec) ==
    LET t == IF IsDateLayout(v) THEN DateAt(v, h, mi, sec)
             ELSE IF HasTimeOfDay(v)
             THEN DateAt(v, Num(SubSeq(v, 12, 13)), Num(SubSeq(v, 15, 16)),
                         Num(SubSeq(v, 18, 19)))
             ELSE ZeroTime
    IN [set |-> t # ZeroTime, t |-> t]

PolicyStart == PolicyBound(BoundValue(cfg.StartTime), 0, 0, 0)

PolicyEnd == PolicyBound(BoundValue(cfg.EndTime), 23, 59, 59)

\* instant t is not after instant u
NotAfter(t, u) == t[1] < u[1] \/ (t[1] = u[1] /\ t[2] <= u[2])

LogDone == last.op = "gitLog" /\ Succeeded(last.ev)

LogHistory == History(repos[Target(last.workDir)])

\* commit i is inside the window of the two bounds
Matching(i) ==
    /\ PolicyStart.set => NotAfter(PolicyStart.t, LogHistory.when[i])
    /\ PolicyEnd.set => NotAfter(LogHistory.when[i], PolicyEnd.t)

MatchingCommits == {i \in 1..LogHistory.n : Matching(i)}

Returned == {last.data[i] : i \in DOMAIN last.data}

LimitCuts == cfg.Limit # 0 /\ Cardinality(MatchingCommits) > cfg.Limit

Min(a, b) == IF a < b THEN a ELSE b

NewestFirst ==
    \A i, j \in DOMAIN last.data :
        i < j => NotAfter(LogHistory.when[last.data[j]], LogHistory.when[last.data[i]])

\* C12: with limit N > 0 and M matching commits log-query returns exactly
\* min(N, M) entries, the N most recent matching commits, newest committer
\* time first; with limit 0 it returns all M matching commits
C12_LimitKeepsMostRecent ==
    (LogDone /\ last.bad = 0) =>
        LET N == cfg.Limit
            M == Cardinality(MatchingCommits)
        IN /\ N > 0 =>
                /\ Len(last.data) = Min(N, M)
                /\ Cardinality(Returned) = Min(N, M)
                /\ NewestFirst
                /\ \A i \in Returned : \A j \in MatchingCommits \ Returned :
                      NotAfter(LogHistory.when[j], LogHistory.when[i])
           /\ N = 0 => Len(last.data) = M /\ Returned = MatchingCommits

\* no commit is older than one of its parents
MonotoneHistory ==
    \A i \in 1..LogHistory.n : \A q \in Parents(LogHistory, i) :
        NotAfter(LogHistory.when[q], LogHistory.when[i])

\* what holds of the limit in every history: the number of entries; and the
\* order and the choice of the entries when no commit is older than a parent
C12_CountAndOrderInMonotoneHistory ==
    (LogDone /\ last.bad = 0) =>
        LET N == cfg.Limit
            M == Cardinality(MatchingCommits)
        IN /\ Len(last.data) = (IF N = 0 THEN M ELSE Min(N, M))
           /\ Cardinality(Returned) = Len(last.data)
           /\ Returned \subseteq MatchingCommits
           /\ MonotoneHistory =>
                /\ NewestFirst
                /\ \A i \in Returned : \A j \in MatchingCommits \ Returned :
                      NotAfter(LogHistory.when[j], LogHistory.when[i])

C12_LimitCutSeen ==
    /\ LogDone /\ last.bad = 0 /\ MonotoneHistory
    /\ cfg.Limit = 2 /\ Cardinality(MatchingCommits) = 3 /\ Len(last.data) = 2

\* C13: a start time given only as a date becomes that date at 00:00:00, an
\* end time given only as a date becomes that date at 23:59:59, a value with a
\* time of day is used unchanged, an empty value stays unset
C13_DateOnlyBoundsNormalized ==
    last.op = "gitLog" =>
        LET st == BoundValue(cfg.StartTime)
            et == BoundValue(cfg.EndTime)
        IN /\ IsDateLayout(st) =>
                /\ last.startTimeStr = st \o <<" ", "0", "0", ":", "0", "0", ":", "0", "0">>
                /\ TimeParse(last.startTimeStr) = [t |-> DateAt(st, 0, 0, 0), err |-> FALSE]
           /\ IsDateLayout(et) =>
                /\ last.endTimeStr = et \o <<" ", "2", "3", ":", "5", "9", ":", "5", "9">>
                /\ TimeParse(last.endTimeStr) = [t |-> DateAt(et, 23, 59, 59), err |-> FALSE]
           /\ HasTimeOfDay(st) => last.startTimeStr = st
           /\ HasTimeOfDay(et) => last.endTimeStr = et
           /\ st = <<>> => last.startTimeStr = <<>> /\ IsZero(TimeParse(last.startTimeStr).t)
           /\ et = <<>> => last.endTimeStr = <<>> /\ IsZero(TimeParse(last.endTimeStr).t)

\* C13 witness: an end given as a date, a start given with a time of day
C13_DateOnlyEndSeen ==
    /\ last.op = "gitLog"
    /\ IsDateLayout(BoundValue(cfg.EndTime))
    /\ HasTimeOfDay(BoundValue(cfg.StartTime))
    /\ last.endTimeStr = Day("2") \o Clock("2", "3", "5", "9", "5", "9")
    /\ last.startTimeStr = BoundValue(cfg.StartTime)

-----------------------------------------------------------------------------
(* the auth selector alone *)

AuthTypes == {"ssh-key", "ssh", "username-password", "password", "token", "", "bogus", "Token"}

AuthCfgs ==
    {[Config(<<>>, S_b, <<>>, t) EXCEPT !.AuthUser = u, !.AuthPassword = pw] :
        t \in AuthTypes, u \in {<<>>, <<"u">>, <<"v">>}, pw \in {<<>>, <<"p">>, <<"q">>}}

InitAuth ==
    /\ cfg \in AuthCfgs
    /\ meta = Metadata(<<>>, <<>>, <<>>, S_hr_git)
    /\ dirs = EmptyFs.dirs
    /\ repos = EmptyFs.repos
    /\ remote = 0
    /\ last = NoCall
    /\ prev = NoCall
    /\ steps = 0

\* a handler calls x.getAuthMethod()
SelectAuth ==
    /\ last.op = "none"
    /\ \E fault \in {"none", "key"} :
          last' = [op |-> "getAuthMethod", ev |-> <<>>, selected |-> getAuthMethod(cfg, fault)]
    /\ UNCHANGED <<cfg, meta, dirs, repos, remote, prev, steps>>

NextAuth == SelectAuth

SpecAuth == InitAuth /\ [][NextAuth]_vars

\* C14: for the tags token, username-password and password the auth selector
\* returns a basic credential holding exactly the configured user and secret
\* (so the three give identical credentials for identical user and secret);
\* for a tag outside ssh-key, ssh, username-password, password, token it
\* returns the unsupported-type error and no credential object
C14_BasicCredentialOrUnsupported ==
    last.op = "getAuthMethod" =>
        /\ cfg.AuthType \in {"token", "username-password", "password"} =>
              /\ last.selected.err = NoErr
              /\ last.selected.auth =
                    [kind |-> "BasicAuth", Username |-> cfg.AuthUser,
                     Password |-> cfg.AuthPassword]
        /\ cfg.AuthType \notin {"ssh-key", "ssh", "username-password", "password", "token"} =>
              /\ last.selected.err = ErrAuthType
              /\ last.selected.auth = [kind |-> "nil"]

\* C14 witness: the alias password gives the basic credential of user v, secret q
C14_PasswordAliasSeen ==
    /\ last.op = "getAuthMethod"
    /\ cfg.AuthType = "password"
    /\ cfg.AuthUser = <<"v">> /\ cfg.AuthPassword = <<"q">>
    /\ last.selected.auth.kind = "BasicAuth"
    /\ last.selected.auth.Username = <<"v">>
    /\ last.selected.auth.Password = <<"q">>

-----------------------------------------------------------------------------
(* host metrics *)

OptionsHostInfo == "host/info"

OptionsCpuInfo == "cpu/info"

OptionsCpuPercent == "cpu/percent"

OptionsVirtualMemory == "mem/virtualMemory"

OptionsSwapMemory == "mem/swapMemory"

OptionsDiskUsage == "disk/usage"

OptionsDiskIOCounters == "disk/ioCounters"

OptionsNetIOCounters == "net/ioCounters"

OptionsInterfaces == "net/interfaces"

\* the metrics OnMsg knows, in the order it collects them
PsMetrics ==
    <<OptionsHostInfo, OptionsCpuInfo, OptionsCpuPercent, OptionsVirtualMemory,
      OptionsSwapMemory, OptionsDiskUsage, OptionsDiskIOCounters,
      OptionsNetIOCounters, OptionsInterfaces>>

\* PsNode.Init: All and Metrics
PsNodeInit(c) ==
    [All |-> Len(c.Options) = 0,
     Metrics |-> {c.Options[i] : i \in DOMAIN c.Options}]

contains_MetricsOnly(x, target) == target \in x.Metrics

contains(x, target) == IF x.All THEN TRUE ELSE target \in x.Metrics

\* the guard of each block of OnMsg
PsWanted(x, target) ==
    IF target \in {OptionsHostInfo, OptionsCpuInfo, OptionsCpuPercent}
    THEN x.All \/ contains(x, target)
    ELSE contains(x, target)

\* what a collector hands back: its value, or nil (with an error that OnMsg
\* drops) when it is one of the failing collectors
Collected(target, failing) ==
    IF target \in failing THEN "null" ELSE "value"

\* result after the blocks of the first n metrics
RECURSIVE PsBlocks(_, _, _)
PsBlocks(x, failing, n) ==
    IF n = 0 THEN <<>>
    ELSE LET result == PsBlocks(x, failing, n - 1)
             target == PsMetrics[n]
         IN IF PsWanted(x, target)
            THEN (target :> Collected(target, failing)) @@ result
            ELSE result

\* the map OnMsg marshals into msg.Data
PsResult(c, failing) == PsBlocks(PsNodeInit(c), failing, Len(PsMetrics))

\* the longest list of options explored
MaxOptions == 2

PsOptionNames == {PsMetrics[i] : i \in DOMAIN PsMetrics} \cup {"bogus"}

PsCfgs ==
    {[Config(<<>>, <<>>, <<>>, "token") EXCEPT !.Options = o] :
        o \in UNION {[1..k -> PsOptionNames] : k \in 0..MaxOptions}}

\* the collectors that fail during one invocation: none, one, or all
PsFailures ==
    {{}} \cup {{PsMetrics[i]} : i \in DOMAIN PsMetrics}
         \cup {{PsMetrics[i] : i \in DOMAIN PsMetrics}}

InitPs ==
    /\ cfg \in PsCfgs
    /\ meta = Metadata(<<>>, <<>>, <<>>, <<>>)
    /\ dirs = EmptyFs.dirs
    /\ repos = EmptyFs.repos
    /\ remote = 0
    /\ last = NoCall
    /\ prev = NoCall
    /\ steps = 0

\* the rule engine hands the message to the host-metrics node
PsQuery ==
    /\ last.op = "none"
    /\ \E failing \in PsFailures :
          LET r == PsNodeOnMsg(cfg, meta, [dirs |-> dirs, repos |-> repos], remote, "none")
          IN /\ meta' = r.meta
             /\ last' = [op |-> "ps", ev |-> r.ev, failing |-> failing,
                         result |-> PsResult(cfg, failing)]
    /\ UNCHANGED <<cfg, dirs, repos, remote, prev, steps>>

NextPs == PsQuery

SpecPs == InitPs /\ [][NextPs]_vars

Requested == {cfg.Options[i] : i \in DOMAIN cfg.Options}

NineMetrics ==
    {"host/info", "cpu/info", "cpu/percent", "mem/virtualMemory", "mem/swapMemory",
     "disk/usage", "disk/ioCounters", "net/ioCounters", "net/interfaces"}

\* C15: with an empty options set the result of host metrics holds all nine
\* metric keys; with a single requested option its key set is exactly that
\* key; in general the key set is the requested options intersected with the
\* known metric names
C15_ResultKeys ==
    last.op = "ps" =>
        /\ cfg.Options = <<>> => DOMAIN last.result = NineMetrics
        /\ cfg.Options # <<>> => DOMAIN last.result = Requested \cap NineMetrics
        /\ \A k \in NineMetrics : cfg.Options = <<k>> => DOMAIN last.result = {k}

\* C15 witness: all nine keys for no options
C15_AllNineSeen ==
    /\ last.op = "ps"
    /\ cfg.Options = <<>>
    /\ Cardinality(DOMAIN last.result) = 9

\* C16: when the collector of a requested metric fails, the key of that metric
\* is absent from the result, the other requested metrics are still collected,
\* and the invocation reports Success
C16_FailedMetricAbsent ==
    last.op = "ps" =>
        LET wanted == IF cfg.Options = <<>> THEN NineMetrics ELSE Requested \cap NineMetrics
        IN /\ \A k \in wanted \cap last.failing : k \notin DOMAIN last.result
           /\ \A k \in wanted \ last.failing :
                 k \in DOMAIN last.result /\ last.result[k] = "value"
           /\ Succeeded(last.ev)

\* what holds when a collector fails: its key stays in the result with a nil
\* value, the other metrics are collected, Success is reported
C16_FailedMetricIsNull ==
    last.op = "ps" =>
        LET wanted == IF cfg.Options = <<>> THEN NineMetrics ELSE Requested \cap NineMetrics
        IN /\ \A k \in wanted \cap last.failing :
                 k \in DOMAIN last.result /\ last.result[k] = "null"
           /\ \A k \in wanted \ last.failing :
                 k \in DOMAIN last.result /\ last.result[k] = "value"
           /\ Succeeded(last.ev)

-----------------------------------------------------------------------------
(* the has-variables flag *)

\* the execution environment built on every call
AlwaysEvn == GetEvnAndMetadata(last.metaIn)

\* C17: the has-variables flag of Init does not change what a field resolves
\* to: every templated field resolves to what it resolves to when the
\* execution environment is built and the field rendered on every call, also
\* when it is the only field of the configuration that holds markers
C17_HasVarDoesNotChangeResolution ==
    last.op \in GitOps =>
        /\ last.workDir = getWorkDir(cfg, last.metaIn, AlwaysEvn)
        /\ last.repository = getRepository(cfg, last.metaIn, AlwaysEvn)
        /\ last.op = "gitClone" => last.ref = getReferenceName(cfg, last.metaIn, AlwaysEvn)
        /\ last.op \in {"gitCommit", "gitCreateTag"} =>
              last.message = getMessage(cfg, AlwaysEvn)

\* a commit whose message is the only field with a marker keeps the marker
C17_MessageMarkerNotRendered ==
    /\ last.op = "gitCommit"
    /\ ~CheckHasVar(cfg.Directory) /\ ~CheckHasVar(cfg.Repository)
    /\ CheckHasVar(cfg.Message)
    /\ last.message = cfg.Message

-----------------------------------------------------------------------------
(* handles *)

\* the calls that hand out a repository handle or a working-tree handle
HandleCalls == {"PlainOpen", "Worktree"}

\* the calls that release a handle
ReleaseCalls == {"Repository.Close", "Worktree.Close"}

\* the handles an invocation opened
OpenedHandles(ev) == {i \in DOMAIN ev : ev[i].call \in HandleCalls /\ ev[i].err = NoErr}

\* C18: every repository handle and working-tree handle opened during an
\* invocation of commit, create-tag, push, log-query or the pull path of
\* clone-or-pull is released before the invocation returns, on the success
\* path and on every early-return failure path
C18_HandlesReleased ==
    last.op \in GitOps =>
        \A i \in OpenedHandles(last.ev) :
            \E j \in DOMAIN last.ev : j > i /\ last.ev[j].call \in ReleaseCalls

\* the only release in the five handlers: the iterator of log-query
C18_OnlyIteratorClosed ==
    last.op \in GitOps =>
        /\ \A j \in DOMAIN last.ev : last.ev[j].call \notin ReleaseCalls
        /\ Made(last.ev, "iter.Close") <=>
              (last.op = "gitLog" /\ Made(last.ev, "Log") /\ ErrOf(last.ev, "Log") = NoErr)

C18_OpenedHandleSeen ==
    /\ last.op = "gitCommit"
    /\ Succeeded(last.ev)
    /\ Cardinality(OpenedHandles(last.ev)) = 2

-----------------------------------------------------------------------------
(* one node instance, two messages in flight.  cfg: the configuration of   *)
(* the node; meta[i]: the metadata of message i; dirs, repos: the          *)
(* filesystem the two invocations share; last[i]: the position of          *)
(* invocation i in OnMsg and its local variables; prev: the node's type    *)
(* and what the configuration and the filesystem were at the start          *)

Invocations == {1, 2}

Other(i) == 3 - i

S_t == <<"/", "t">>

ConcCfgs ==
    {Config(rep, dir, <<>>, auth) :
        rep \in {<<>>, S_hr_git}, dir \in {<<>>, S_b}, auth \in {"token", "bogus"}}

ConcMetas ==
    {Metadata(wd, S_main, <<>>, http) : wd \in {S_w, S_t}, http \in {S_hr_git, S_ssh_url}}

ConcFss ==
    {EmptyFs,
     PutRepo(EmptyFs, S_br, [ver |-> 0, dirty |-> FALSE, commits |-> 1, tags |-> 0]),
     PutRepo(PutRepo(EmptyFs, S_w \o <<"/", "r">>,
                     [ver |-> 0, dirty |-> FALSE, commits |-> 1, tags |-> 0]),
             S_t \o <<"/", "r">>,
             [ver |-> 0, dirty |-> FALSE, commits |-> 0, tags |-> 0])}

ConcFaults(node) ==
    IF node = "gitClone" THEN {"none", "net", "worktree"} ELSE {"none", "log"}

NotStarted(m) ==
    [pc |-> "start", fault |-> "none", ev |-> <<>>, workDir |-> <<>>,
     repository |-> <<>>, metaIn |-> m, overlap |-> FALSE]

InitConc ==
    /\ cfg \in ConcCfgs
    /\ \E m \in ConcMetas : meta = <<Metadata(S_w, S_main, <<>>, S_hr_git), m>>
    /\ \E fs \in ConcFss : dirs = fs.dirs /\ repos = fs.repos
    /\ remote \in {0, 1}
    /\ last = [i \in Invocations |-> NotStarted(meta[i])]
    /\ \E node \in {"gitClone", "gitLog"} :
          prev = [node |-> node, cfg0 |-> cfg, fs0 |-> [dirs |-> dirs, repos |-> repos]]
    /\ steps = 0

PutValueWorkDir_Shared(ms, i, workDir) ==
    [j \in DOMAIN ms |-> [ms[j] EXCEPT !.workDir = workDir]]

\* msg.Metadata.PutValue(KeyWorkDir, workDir) of invocation i
PutValueWorkDir(ms, i, workDir) == [ms EXCEPT ![i].workDir = workDir]

\* invocation inv after a step that made the calls evs and moved to pc
Moved(inv, pc, evs) == [inv EXCEPT !.pc = pc, !.ev = @ \o evs]

\* the head of OnMsg of both nodes: evn, the resolved fields, PutValue
StartStep(node, c, inv, m) ==
    LET evn == Evn(node, c, m)
        workDir == getWorkDir(c, m, evn)
        repository == getRepository(c, m, evn)
    IN [Moved(inv, IF node = "gitClone" THEN "stat" ELSE "open", <<PutWorkDir>>)
            EXCEPT !.workDir = workDir, !.repository = repository]

\* GitCloneNode.OnMsg from os.Stat on, one call of the handler per step: the
\* invocation and the filesystem after the step
GitCloneNodeStep(c, inv, fs, rem) ==
    LET auth == getAuthMethod(c, inv.fault)
        authEv == E("getAuthMethod", auth.err)
    IN CASE inv.pc = "stat" ->
              LET st == Stat(fs, inv.workDir)
              IN [inv |-> Moved(inv, IF IsNotExist(st) THEN "cloneAuth" ELSE "open",
                                <<E("os.Stat", st)>>),
                  fs |-> fs]
         [] inv.pc = "cloneAuth" ->
              [inv |-> IF auth.err # NoErr
                       THEN Moved(inv, "done", <<authEv, TellFailure(auth.err)>>)
                       ELSE Moved(inv, "clone", <<authEv>>),
               fs |-> fs]
         [] inv.pc = "clone" ->
              LET cl == PlainClone(fs, rem, inv.workDir, inv.repository, inv.fault)
              IN [inv |-> Moved(inv, "done",
                                <<E("PlainClone", cl.err),
                                  IF cl.err # NoErr THEN TellFailure(cl.err)
                                  ELSE TellSuccess>>),
                  fs |-> cl.fs]
         [] inv.pc = "open" ->
              LET op == PlainOpen(fs, inv.workDir)
              IN [inv |-> IF op # NoErr
                          THEN Moved(inv, "done", <<E("PlainOpen", op), TellFailure(op)>>)
                          ELSE Moved(inv, "worktree", <<E("PlainOpen", op)>>),
                  fs |-> fs]
         [] inv.pc = "worktree" ->
              LET wt == IF inv.fault = "worktree" THEN ErrIsBareRepository ELSE NoErr
              IN [inv |-> IF wt # NoErr
                          THEN Moved(inv, "done", <<E("Worktree", wt), TellFailure(wt)>>)
                          ELSE Moved(inv, "pullAuth", <<E("Worktree", wt)>>),
                  fs |-> fs]
         [] inv.pc = "pullAuth" ->
              [inv |-> IF auth.err # NoErr
                       THEN Moved(inv, "done", <<authEv, TellFailure(auth.err)>>)
                       ELSE Moved(inv, "pull", <<authEv>>),
               fs |-> fs]
         [] inv.pc = "pull" ->
              LET pl == IF HasRepo(fs, inv.workDir)
                        THEN Pull(fs, rem, inv.workDir, inv.fault)
                        ELSE [err |-> ErrRepositoryNotExists, fs |-> fs]
              IN [inv |-> Moved(inv, "done", <<E("Pull", pl.err), PullOutcome(pl.err)>>),
                  fs |-> pl.fs]

\* GitLogNode.OnMsg from git.PlainOpen on, one call of the handler per step
GitLogNodeStep(c, inv, fs, rem) ==
    CASE inv.pc = "open" ->
           LET op == PlainOpen(fs, inv.workDir)
           IN [inv |-> IF op # NoErr
                       THEN Moved(inv, "done", <<E("PlainOpen", op), TellFailure(op)>>)
                       ELSE Moved(inv, "log", <<E("PlainOpen", op)>>),
               fs |-> fs]
      [] inv.pc = "log" ->
           LET lg == IF inv.fault = "log" THEN ErrLog
                     ELSE IF ~HasRepo(fs, inv.workDir) THEN ErrRepositoryNotExists
                     ELSE IF fs.repos[Target(inv.workDir)].commits = 0
                     THEN ErrReferenceNotFound
                     ELSE NoErr
           IN [inv |-> IF lg # NoErr
                       THEN Moved(inv, "done", <<E("Log", lg), TellFailure(lg)>>)
                       ELSE Moved(inv, "iterate", <<E("Log", lg)>>),
               fs |-> fs]
      [] inv.pc = "iterate" ->
           [inv |-> Moved(inv, "done", <<TellSuccess, IterClose>>), fs |-> fs]

Overlapping(i) == last[Other(i)].pc \notin {"start", "done"}

\* the rule engine hands message i to the node
Start(i) ==
    /\ last[i].pc = "start"
    /\ \E fault \in ConcFaults(prev.node) :
          LET inv == StartStep(prev.node, cfg, [last[i] EXCEPT !.fault = fault], meta[i])
          IN /\ last' = [last EXCEPT ![i] = [inv EXCEPT !.overlap = Overlapping(i)]]
             /\ meta' = PutValueWorkDir(meta, i, inv.workDir)
    /\ UNCHANGED <<cfg, dirs, repos, remote, prev, steps>>

\* invocation i makes its next call
Step(i) ==
    /\ last[i].pc \notin {"start", "done"}
    /\ LET fs == [dirs |-> dirs, repos |-> repos]
           r == IF prev.node = "gitClone"
                THEN GitCloneNodeStep(cfg, last[i], fs, remote)
                ELSE GitLogNodeStep(cfg, last[i], fs, remote)
       IN /\ last' = [last EXCEPT ![i] = [r.inv EXCEPT !.overlap = @ \/ Overlapping(i)]]
          /\ dirs' = r.fs.dirs
          /\ repos' = r.fs.repos
    /\ UNCHANGED <<cfg, meta, remote, prev, steps>>

NextConc == \E i \in Invocations : Start(i) \/ Step(i)

SpecConc == InitConc /\ [][NextConc]_vars

\* what invocation i produces when it runs alone
Alone(i) ==
    OnMsg(prev.node, prev.cfg0, last[i].metaIn, prev.fs0, remote, last[i].fault)

DistinctWorkDirs ==
    \/ \E i \in Invocations : last[i].pc = "start"
    \/ Target(last[1].workDir) # Target(last[2].workDir)

\* C19: when one node instance is invoked concurrently with distinct messages
\* that target distinct working directories, no invocation writes the
\* configuration of the node or state shared with the other invocation:
\* under every interleaving the outcome and the metadata writes of each
\* invocation are those it produces when run alone
C19_InterleavedEqualsAlone ==
    /\ cfg = prev.cfg0
    /\ DistinctWorkDirs =>
          \A i \in Invocations :
              /\ last[i].pc = "start" => meta[i] = last[i].metaIn
              /\ last[i].pc # "start" => meta[i] = Alone(i).meta
              /\ last[i].pc = "done" => last[i].ev = Alone(i).ev

\* C19 witness: two clones that overlapped in time, into distinct directories,
\* both finished
C19_OverlappingClonesSeen ==
    /\ prev.node = "gitClone"
    /\ \A i \in Invocations :
          last[i].pc = "done" /\ last[i].overlap /\ Succeeded(last[i].ev)
    /\ Target(last[1].workDir) # Target(last[2].workDir)
    /\ Made(last[1].ev, "PlainClone") /\ Made(last[2].ev, "PlainClone")

-----------------------------------------------------------------------------
(* clone-or-pull: the order of its steps *)

\* where call was made in the trace
Pos(ev, call) == CHOOSE i \in DOMAIN ev : ev[i].call = call

\* call was made, returned no error, and was made before the call named next
OkBefore(ev, call, next) ==
    /\ Made(ev, call)
    /\ ErrOf(ev, call) = NoErr
    /\ Pos(ev, call) < Pos(ev, next)

\* the trace ends with call returning an error and the Failure that carries it
EndsInFailureAt(ev, call) ==
    /\ Len(ev) >= 2
    /\ ev[Len(ev) - 1].call = call
    /\ ev[Len(ev)] = TellFailure(ev[Len(ev) - 1].err)
    /\ Failed(ev)

\* C20: clone-or-pull attempts a clone if and only if the resolved work
\* directory does not exist and otherwise opens the existing repository and
\* pulls; on either path the clone or the pull is attempted only after auth
\* selection has succeeded; an auth-selection error or a clone error ends the
\* invocation in Failure with no further step
C20_CloneOrPullOrder ==
    [][Clone =>
          LET ev == last'.ev
              exists == last'.workDir \in dirs
          IN /\ ~exists =>
                   /\ ~MadeAny(ev, {"PlainOpen", "Worktree", "Pull"})
                   /\ Made(ev, "getAuthMethod")
                   /\ ErrOf(ev, "getAuthMethod") = NoErr => Made(ev, "PlainClone")
             /\ exists =>
                   /\ ~Made(ev, "PlainClone")
                   /\ Made(ev, "PlainOpen")
                   /\ (/\ ErrOf(ev, "PlainOpen") = NoErr
                       /\ ErrOf(ev, "Worktree") = NoErr
                       /\ ErrOf(ev, "getAuthMethod") = NoErr) => Made(ev, "Pull")
             /\ Made(ev, "PlainClone") => OkBefore(ev, "getAuthMethod", "PlainClone")
             /\ Made(ev, "Pull") =>
                   /\ OkBefore(ev, "PlainOpen", "Pull")
                   /\ OkBefore(ev, "getAuthMethod", "Pull")
             /\ (Made(ev, "getAuthMethod") /\ ErrOf(ev, "getAuthMethod") # NoErr) =>
                   EndsInFailureAt(ev, "getAuthMethod")
             /\ (Made(ev, "PlainClone") /\ ErrOf(ev, "PlainClone") # NoErr) =>
                   /\ EndsInFailureAt(ev, "PlainClone")
                   /\ repos' = repos /\ dirs' = dirs]_vars

\* C20 witness: the work directory was missing, auth selection succeeded, the
\* clone failed, and the invocation ended in Failure at that step
C20_CloneErrorSeen ==
    /\ last.op = "gitClone"
    /\ last.workDir \notin dirs
    /\ Made(last.ev, "PlainClone")
    /\ ErrOf(last.ev, "PlainClone") = ErrTransport
    /\ ErrOf(last.ev, "getAuthMethod") = NoErr
    /\ EndsInFailureAt(last.ev, "PlainClone")

-----------------------------------------------------------------------------
(* create-tag: HEAD that cannot be resolved *)

HeadFailed ==
    /\ last.op = "gitCreateTag"
    /\ Made(last.ev, "Head")
    /\ ErrOf(last.ev, "Head") # NoErr

\* C21: when HEAD cannot be resolved in create-tag the error is not
\* propagated at that step, but the invocation still ends with a reported
\* Failure at the commit-object step that follows; no tag is created and
\* metadata hash is not written
C21_HeadFailureReportedAtCommitObject ==
    HeadFailed =>
        /\ Made(last.ev, "CommitObject")
        /\ EndsInFailureAt(last.ev, "CommitObject")
        /\ ~Made(last.ev, "CreateTag")
        /\ ~Made(last.ev, "PutValue(hash)")

\* what happens instead: the handler faults on the nil reference before the
\* commit-object step and signals nothing; no tag, no hash
C21_HeadFailurePanics ==
    HeadFailed =>
        /\ last.ev[Len(last.ev)] = Panic
        /\ Signals(last.ev) = 0
        /\ ~MadeAny(last.ev, {"CommitObject", "CreateTag", "PutValue(hash)"})
        /\ repos[Target(last.workDir)].tags = 0
        /\ meta.hash = last.metaIn.hash

C21_HeadFailureSeen == HeadFailed /\ last.ev[Len(last.ev)] = Panic

-----------------------------------------------------------------------------
(* commit and create-tag: metadata hash *)

\* how often call was made
Count(ev, call) == Cardinality({i \in DOMAIN ev : ev[i].call = call})

\* C22: commit and create-tag write metadata hash if and only if the
\* invocation ends in Success: once, after the commit or tag object has been
\* created and before Success is signalled, with the identifier of that
\* object; on every Failure path hash keeps its previous value
C22_HashWrittenIffSuccess ==
    [][(Commit \/ CreateTag) =>
          LET ev == last'.ev
              create == IF last'.op = "gitCommit" THEN "Commit" ELSE "CreateTag"
              before == repos[Target(last'.workDir)]
              after == repos'[Target(last'.workDir)]
          IN /\ Made(ev, "PutValue(hash)") <=> Succeeded(ev)
             /\ Succeeded(ev) =>
                   /\ Count(ev, "PutValue(hash)") = 1
                   /\ OkBefore(ev, create, "PutValue(hash)")
                   /\ Pos(ev, "PutValue(hash)") < Pos(ev, "TellSuccess")
                   /\ last'.op = "gitCommit" =>
                         /\ after.commits = before.commits + 1
                         /\ meta'.hash = <<"c", ToString(after.commits)>>
                   /\ last'.op = "gitCreateTag" =>
                         /\ after.tags = before.tags + 1
                         /\ meta'.hash = <<"t", ToString(after.tags)>>
             /\ ~Succeeded(ev) => meta'.hash = meta.hash /\ repos' = repos]_vars

\* C22 witness: a commit that wrote its hash, then a tag that replaced it
C22_TagHashAfterCommitHash ==
    /\ prev.op = "gitCommit" /\ Succeeded(prev.ev)
    /\ last.op = "gitCreateTag" /\ Succeeded(last.ev)
    /\ last.metaIn.hash = <<"c", "1">>
    /\ meta.hash = <<"t", "1">>

-----------------------------------------------------------------------------
(* metadata workDir *)

GitStep == Clone \/ Commit \/ CreateTag \/ PushOp \/ Log

\* C23: every git operation (clone-or-pull, commit, create-tag, push,
\* log-query) overwrites metadata workDir with the work directory it
\* resolved before it makes any repository or filesystem step, so after every
\* invocation, also one that ends in Failure, metadata workDir is the
\* directory that invocation resolved
C23_WorkDirWrittenFirst ==
    [][GitStep =>
          LET ev == last'.ev
          IN /\ Len(ev) >= 1
             /\ ev[1].call = "PutValue(workDir)"
             /\ Count(ev, "PutValue(workDir)") = 1
             /\ \A i \in DOMAIN ev :
                   ev[i].call \in FsCalls \cup NetCalls
                                    \cup {"Head", "CommitObject", "CreateTag", "Status",
                                          "AddGlob", "Commit", "Log"} => i > 1
             /\ meta'.workDir = last'.workDir
             /\ last'.workDir =
                   PathJoin(last'.base, getRepoName(last'.repository))]_vars

\* C23 witness: an invocation that ended in Failure left its resolved
\* directory, another one than the message came with, in metadata workDir
C23_WorkDirAfterFailureSeen ==
    /\ last.op = "gitPush"
    /\ Failed(last.ev)
    /\ meta.workDir = last.workDir
    /\ last.metaIn.workDir # last.workDir

====
